---------------------------- MODULE Spec2Model ----------------------------
(***************************************************************************)
(* Model of the .svn decoder (src/svn parser/svnparser.py) and of the      *)
(* logarithmic averaging that drives it (src/acoustic-pressure/pressure.py)*)
(*                                                                         *)
(* A file is a sequence of bytes (0..255).  Decoded levels are Python      *)
(* floats raw/100, raw/10 and raw/20; the model keeps every level as the   *)
(* exact integer number of hundredths of a dB (raw, 10*raw, 5*raw), which  *)
(* is a faithful image: the three divisions are correctly rounded and map  *)
(* distinct quotients to distinct floats in the 16-bit range.              *)
(* Python's None is the empty tuple <<>>; text is a tuple of code points.  *)
(***************************************************************************)
EXTENDS Integers, Sequences, FiniteSets, TLC

VARIABLES
    reader,     \* the svn_parser instance: a record of its attributes
    path,       \* index in Disk of the file being (or last) loaded, 0: none
    pos,        \* read position of the open file object
    pc,         \* where control is: lm_for, loop, main, buffer, trailer, loaded, lm_done
    idx,        \* loop index inside read_main_contents / read_buffer_contents
    ret,        \* outcome of the latest load: none, True, False or the exception raised
    short,      \* history: some read of the current load returned fewer bytes than asked
    term,       \* history: tag of the terminal record the current load entered (0: none)
    stdout,     \* number of 'ERROR' lines printed by the current load
    channel,    \* log_mean's channel argument
    data,       \* log_mean's local list `data`
    lens,       \* history: length of reader.data[channel] at each get_data call
    result,     \* what log_mean returned or raised (<<>>: still running)
    call,       \* the latest direct call of a module-level codec function
    hist,       \* history of the current load: mark, the position at which the
                \* terminal decoder began; tags, the tags the loop dispatched;
                \* subs, <<sub-tag, bandCount, totalCount>> of each sub-record read
    view        \* the list get_sampled_data returned to the caller (<<>>: none)

vars == <<reader, path, pos, pc, idx, ret, short, term, stdout,
          channel, data, lens, result, call, hist, view>>

---------------------------------------------------------------------------
(* Bounds of the model *)

\* most files one log_mean call is given
MaxFiles == 2

---------------------------------------------------------------------------
(* Program constants *)

channels0 == 3
samples0 == 160
frequencies0 == 45
totals0 == 3
step0 == 100
StampLen == 32
CONTAINERS == {7, 9, 14}
None == <<>>

Min(a, b) == IF a < b THEN a ELSE b
Max(a, b) == IF a < b THEN b ELSE a

---------------------------------------------------------------------------
(* Python primitives *)

\* int.from_bytes(b, byteorder='little'); b'' gives 0
RECURSIVE FromBytes(_)
FromBytes(b) == IF b = <<>> THEN 0 ELSE b[1] + 256 * FromBytes(Tail(b))

\* parse_bytes: two's complement of as many bytes as were actually read (the
\* top byte carries the sign; at most 4 bytes are ever parsed)
parse_bytes(b) ==
    LET n == Len(b)
        top == IF b[n] >= 128 THEN b[n] - 256 ELSE b[n]
    IN  IF n = 0 THEN 0
        ELSE FromBytes(SubSeq(b, 1, n - 1)) + top * 256 ^ (n - 1)

\* file.read(n) at position p of the bytes b: a short read near the
\* end of the file, b'' at or past it
Rd(b, p, n) == IF p >= Len(b) \/ n <= 0 THEN <<>> ELSE SubSeq(b, p + 1, Min(p + n, Len(b)))
Adv(b, p, n) == Min(Max(p, p + n), Len(b))
\* the read asked for more bytes than remain
IsShort(b, p, n) == n > 0 /\ p + n > Len(b)

\* x & mask for a mask 2^k - 1 and any Python int x (negative ints behave as
\* infinitely sign-extended two's complement, so the low bits are x mod 2^k)
BitAndLow(x, mask) == x % (mask + 1)
\* x >> k: floor division by 2^k, also for negative x
ShiftRight(x, k) == x \div (2 ^ k)

---------------------------------------------------------------------------
(* Primitive codecs *)

\* a decompress_time whose minute is not reduced modulo 60
decompress_time_nomod(time) ==
    <<time \div 1800, time \div 30, (time % 30) * 2>>

decompress_time(time) ==
    LET second == (time % 30) * 2
        minute == (time \div 30) % 60
        hour == time \div 1800
    IN  <<hour, minute, second>>

\* a decompress_date that does not mask the year bits
decompress_date_nomask(date) ==
    <<BitAndLow(date, 31), BitAndLow(ShiftRight(date, 5), 15), ShiftRight(date, 9) + 2000>>

decompress_date(date) ==
    LET day == BitAndLow(date, 31)
        month == BitAndLow(ShiftRight(date, 5), 15)
        year == BitAndLow(ShiftRight(date, 9), 127)
    IN  <<day, month, year + 2000>>

\* bytes.decode('utf-16'): a leading FF FE / FE FF byte order mark is consumed
\* and fixes the byte order, otherwise the order is the machine's (little
\* endian); an odd byte count, a lone surrogate or a high surrogate at the
\* end raise UnicodeDecodeError.  [ok, text]: text is the code points.
Utf16Units(b, be) ==
    [i \in 1..(Len(b) \div 2) |->
        IF be THEN 256 * b[2 * i - 1] + b[2 * i] ELSE b[2 * i - 1] + 256 * b[2 * i]]

IsHigh(u) == u >= 55296 /\ u <= 56319
IsLow(u) == u >= 56320 /\ u <= 57343

RECURSIVE Utf16Points(_)
Utf16Points(u) ==
    IF u = <<>> THEN [ok |-> TRUE, text |-> <<>>]
    ELSE IF IsLow(u[1]) THEN [ok |-> FALSE, text |-> <<>>]
    ELSE IF IsHigh(u[1]) THEN
        IF Len(u) >= 2 /\ IsLow(u[2]) THEN
            LET rest == Utf16Points(Tail(Tail(u)))
                cp == 65536 + (u[1] - 55296) * 1024 + (u[2] - 56320)
            IN  [ok |-> rest.ok, text |-> <<cp>> \o rest.text]
        ELSE [ok |-> FALSE, text |-> <<>>]
    ELSE LET rest == Utf16Points(Tail(u))
         IN  [ok |-> rest.ok, text |-> <<u[1]>> \o rest.text]

Utf16Decode(b) ==
    LET le == Len(b) >= 2 /\ b[1] = 255 /\ b[2] = 254
        be == Len(b) >= 2 /\ b[1] = 254 /\ b[2] = 255
        body == IF le \/ be THEN Tail(Tail(b)) ELSE b
        pts == Utf16Points(Utf16Units(body, be))
    IN  IF Len(body) % 2 = 1 THEN [ok |-> FALSE, text |-> <<>>]
        ELSE IF pts.ok THEN pts ELSE [ok |-> FALSE, text |-> <<>>]

\* the three fixed-point scalings, each in hundredths of a dB
Div100(raw) == raw
\* a band level scaled as a Leq is
Div10AsLeq(raw) == 5 * raw
Div10(raw) == 10 * raw
Div20(raw) == 5 * raw

---------------------------------------------------------------------------
(* The svn_parser instance *)

\* svn_parser.__init__
Fresh ==
    [data |-> None, sampled_data |-> None, leq |-> None,
     channels |-> channels0, samples |-> samples0, frequencies |-> frequencies0,
     totals |-> totals0, step |-> step0,
     file |-> <<>>, associated_file |-> <<>>, date |-> None, time |-> None]

(***************************************************************************)
(* One call of load is a machine m = [rd, pos, pc, idx, ret, short, term,  *)
(* out, hist] run over the bytes b of the opened file: rd the parser's     *)
(* attributes, pos the file position, pc in {loop, main, buffer, trailer,  *)
(* loaded}.  An exception leaves the attributes assigned so far in place   *)
(* and ends the call with ret naming it.                                   *)
(***************************************************************************)

Raise(m, exc, rd, p, sh) ==
    [m EXCEPT !.rd = rd, !.pos = p, !.pc = "loaded", !.ret = exc, !.short = @ \/ sh]

NoHist == [mark |-> 0, tags |-> <<>>, subs |-> <<>>]

\* load, lines 133-134: open the file and read the 32-byte stamp
StartLoad(rd, b) ==
    [rd |-> rd, pos |-> Adv(b, 0, StampLen), pc |-> "loop", idx |-> 0,
     ret |-> "none", short |-> IsShort(b, 0, StampLen), term |-> 0, out |-> 0,
     hist |-> NoHist]

\* the tag and length byte at the top of the dispatch loop
HeaderAt(b, p) == FromBytes(Rd(b, p, 1))
LengthAt(b, p) == FromBytes(Rd(b, Adv(b, p, 1), 1))

\* line 149: the effective length of a record whose length byte is 0
ExtendedLength(L) == L - 1

\* a read that takes a negative count for "read nothing"
ReadRejectsNever(n) == FALSE

\* lines 172 and 178: file.read(n) of the buffered reader raises ValueError
\* for a negative n other than -1 (the counts asked for are even)
ReadRejects(n) == n < 0

\* a generic skip of one code unit too many
SkipBytesLong(length) == 2 * length

\* line 178: the number of bytes the generic path asks the file for
SkipBytes(length) == 2 * (length - 1)

\* a container skip that honours the length byte
ContainerBytesByLength(length) == 2 * length

\* line 144: the number of bytes skipped after a container's tag and length
\* byte, whatever the length byte is
ContainerBytes(length) == 2

\* a buffer header that skips one code unit less after its fields
RestBytesShort(length) == 2 * (length - 9)

\* line 172: the number of bytes the buffer header skips after its fields
RestBytes(length) == 2 * (length - 8)

\* a file header whose names are 8 code units long
NameBytesWide == 2 * 8

\* lines 156 and 160: the number of bytes read for each of the two names
NameBytes == 8

\* file header, lines 155-161
FileHeader(m, b, p, sh) ==
    LET name == Utf16Decode(Rd(b, p, NameBytes))
        p1 == Adv(b, p, NameBytes)
        p2 == Adv(b, p1, 2)
        date == decompress_date(parse_bytes(Rd(b, p2, 2)))
        p3 == Adv(b, p2, 2)
        time == decompress_time(parse_bytes(Rd(b, p3, 2)))
        p4 == Adv(b, p3, 2)
        assoc == Utf16Decode(Rd(b, p4, NameBytes))
        p5 == Adv(b, p4, NameBytes)
        rd1 == [m.rd EXCEPT !.file = name.text, !.date = date, !.time = time]
    IN  IF ~name.ok THEN
            Raise(m, "UnicodeDecodeError", m.rd, p1, sh \/ IsShort(b, p, NameBytes))
        ELSE IF ~assoc.ok THEN
            Raise(m, "UnicodeDecodeError", rd1, p5, sh \/ IsShort(b, p, 2 * NameBytes + 6))
        ELSE [m EXCEPT !.rd = [rd1 EXCEPT !.associated_file = assoc.text],
                       !.pos = p5, !.short = @ \/ sh \/ IsShort(b, p, 2 * NameBytes + 6)]

\* buffer header, lines 164-173
BufferHeader(m, b, p, length, sh) ==
    LET p1 == Adv(b, p, 4)
        step == parse_bytes(Rd(b, p1, 2))
        p2 == Adv(b, p1, 2)
        p3 == Adv(b, p2, 4)
        samples == parse_bytes(Rd(b, p3, 4))
        p4 == Adv(b, p3, 4)
        rest == RestBytes(length)
        rd1 == [m.rd EXCEPT !.step = step, !.samples = samples]
    IN  IF ReadRejects(rest) THEN
            Raise(m, "ValueError", rd1, p4, sh \/ IsShort(b, p, 14))
        ELSE [m EXCEPT !.rd = rd1, !.pos = Adv(b, p4, rest),
                       !.short = @ \/ sh \/ IsShort(b, p, 14) \/ IsShort(b, p4, rest)]

\* read_buffer_contents, lines 235-248: reset channels and totals and
\* preallocate sampled_data[channel][value][sample] and leq[channel][sample]
EnterBuffer(rd) ==
    LET rd1 == [rd EXCEPT !.channels = 3, !.totals = 3]
        n == Max(0, rd1.frequencies + rd1.totals)
        s == Max(0, rd1.samples)
    IN  [rd1 EXCEPT
            !.sampled_data = [c \in 1..rd1.channels |-> [v \in 1..n |-> [i \in 1..s |-> 0]]],
            !.leq = [c \in 1..rd1.channels |-> [i \in 1..s |-> 0]]]

\* read_main_contents, line 204
EnterMain(rd) == [rd EXCEPT !.data = [c \in 1..rd.channels |-> <<>>]]

\* every other header, lines 178-188: skip, then enter a terminal decoder
Generic(m, b, p, header, length, sh) ==
    LET n == SkipBytes(length)
        p1 == Adv(b, p, n)
        sh1 == sh \/ IsShort(b, p, n)
    IN  IF ReadRejects(n) THEN Raise(m, "ValueError", m.rd, p, sh)
        ELSE IF header = 33 THEN
            [m EXCEPT !.rd = EnterBuffer(m.rd), !.pos = p1, !.pc = "buffer",
                      !.idx = 0, !.term = 33, !.short = @ \/ sh1, !.hist.mark = p1]
        ELSE IF header = 25 THEN
            [m EXCEPT !.rd = EnterMain(m.rd), !.pos = p1, !.pc = "main",
                      !.idx = 0, !.term = 25, !.short = @ \/ sh1, !.hist.mark = p1]
        ELSE [m EXCEPT !.pos = p1, !.short = @ \/ sh1]

\* one iteration of the dispatch loop, lines 137-188
LoopStep(m, b) ==
    LET p0 == m.pos
        header == HeaderAt(b, p0)
        length0 == LengthAt(b, p0)
        p2 == Adv(b, p0, 2)
        ext == length0 = 0
        length == IF ext THEN ExtendedLength(FromBytes(Rd(b, p2, 2))) ELSE length0
        p3 == IF ext THEN Adv(b, p2, 2) ELSE p2
        sh == IsShort(b, p0, IF ext THEN 4 ELSE 2)
    IN  IF header \in CONTAINERS THEN
            [m EXCEPT !.pos = Adv(b, p2, ContainerBytes(length0)),
                      !.short = @ \/ IsShort(b, p0, 2 + ContainerBytes(length0))]
        ELSE IF header = 1 THEN FileHeader(m, b, p3, sh)
        ELSE IF header = 24 THEN BufferHeader(m, b, p3, length, sh)
        ELSE Generic(m, b, p3, header, length, sh)

\* the 16-bit value of the i-th code unit (i from 0) at or after position p
WordAt(b, p, i) == parse_bytes(Rd(b, p + 2 * i, 2))

\* a decoder that stores the values of every sub-record
StoredAlways(header) == TRUE

\* line 225: only the values of an octave-results sub-record are stored
Stored(header) == header = 16

\* read_main_contents, lines 206-226: sub-record number m.idx (from 0)
MainStep(m, b) ==
    LET p == m.pos
        header == FromBytes(Rd(b, p, 1))
        frequencies == parse_bytes(Rd(b, Adv(b, p, 4), 2))
        totals == parse_bytes(Rd(b, Adv(b, p, 6), 2))
        n == Max(0, frequencies + totals)
        q == Adv(b, p, 8)
        nums == [i \in 1..n |-> Div100(WordAt(b, q, i - 1))]
        ch == (m.idx \div 2) + 1
        rd1 == [m.rd EXCEPT !.frequencies = frequencies, !.totals = totals,
                            !.data[ch] = IF Stored(header) THEN @ \o nums ELSE @]
    IN  [m EXCEPT !.rd = rd1, !.pos = Adv(b, q, 2 * n),
                  !.idx = @ + 1,
                  !.pc = IF m.idx + 1 >= m.rd.channels * 2 THEN "trailer" ELSE "main",
                  !.short = @ \/ IsShort(b, p, 8 + 2 * n),
                  !.hist.subs = Append(@, <<header, frequencies, totals>>)]

\* a guard check that gives up the decode
GuardCheckAbort(m, bad) ==
    IF bad > 0 THEN [m EXCEPT !.out = @ + bad, !.pc = "loaded", !.ret = "ValueError"]
    ELSE m

\* lines 262-263: each of the bad guard words prints 'ERROR', nothing else
GuardCheck(m, bad) == [m EXCEPT !.out = @ + bad]

\* read_buffer_contents, lines 250-270: sample number m.idx (from 0)
BufferStep(m, b) ==
    LET p == m.pos
        s == m.idx + 1
        n == Max(0, m.rd.frequencies + m.rd.totals)
        q == Adv(b, p, 6)
        \* start of channel c's guard word (c from 1)
        block(c) == q + (c - 1) * (2 + 2 * n)
        guard(c) == WordAt(b, block(c), 0)
        size == 6 + m.rd.channels * (2 + 2 * n)
        rd1 == [m.rd EXCEPT
                  !.leq = [c \in 1..3 |-> [@[c] EXCEPT ![s] = Div20(WordAt(b, p, c - 1))]],
                  !.sampled_data = [c \in 1..m.rd.channels |->
                      [v \in 1..n |-> [@[c][v] EXCEPT ![s] = Div10(WordAt(b, block(c), v))]]]]
    IN  GuardCheck([m EXCEPT !.rd = rd1, !.pos = Adv(b, p, size),
                               !.idx = @ + 1,
                               !.pc = IF s >= m.rd.samples THEN "trailer" ELSE "buffer",
                               !.short = @ \/ IsShort(b, p, size)],
                   Cardinality({c \in 1..m.rd.channels : guard(c) # 0}))

\* a trailer check that passes whatever the bytes are
TrailerOkAny(bytes) == TRUE

\* line 191: the last word is FFFFh
TrailerOk(bytes) == bytes = <<255, 255>>

\* load, lines 190-193
TrailerStep(m, b) ==
    [m EXCEPT !.pos = Adv(b, m.pos, 2), !.pc = "loaded",
              !.ret = IF TrailerOk(Rd(b, m.pos, 2)) THEN "True" ELSE "False",
              !.short = @ \/ IsShort(b, m.pos, 2)]

\* a terminal decoder whose loop has nothing to do goes straight to the trailer
Settle(m) ==
    IF m.pc = "buffer" /\ m.rd.samples <= 0 THEN [m EXCEPT !.pc = "trailer"]
    ELSE IF m.pc = "main" /\ m.rd.channels * 2 <= 0 THEN [m EXCEPT !.pc = "trailer"]
    ELSE m

\* one step of load
Step(m, b) ==
    IF m.pc = "loop" THEN
        Settle([LoopStep(m, b) EXCEPT !.hist.tags = Append(@, HeaderAt(b, m.pos))])
    ELSE IF m.pc = "main" THEN MainStep(m, b)
    ELSE IF m.pc = "buffer" THEN BufferStep(m, b)
    ELSE TrailerStep(m, b)

\* load run to its end: the machine when the call has returned or raised
RECURSIVE RunLoad(_, _)
RunLoad(m, b) == IF m.pc = "loaded" THEN m ELSE RunLoad(Step(m, b), b)

\* load(path) on a parser with attributes rd
load(rd, b) == RunLoad(StartLoad(rd, b), b)

---------------------------------------------------------------------------
(* Accessors *)

\* Python's s[lo:hi] for 0 <= lo <= hi
Slice(s, lo, hi) == IF lo >= Len(s) THEN <<>> ELSE SubSeq(s, lo + 1, Min(hi, Len(s)))
\* Python's s[-k:] for k > 0
LastK(s, k) == SubSeq(s, Max(1, Len(s) - k + 1), Len(s))

\* a get_data that takes the bands up to, not including, index 38
get_data_38(levels) == Slice(levels, 18, 38) \o LastK(levels, 3)

\* get_data, line 282, on the channel's level sequence
get_data(levels) == Slice(levels, 18, 39) \o LastK(levels, 3)

\* get_sampled_data, line 294, on the channel's list of per-band sample
\* lists.  Slicing, + and .copy() build new outer lists only: the elements
\* of the result are the parser's own per-band lists.  The result is given
\* as the (1-based) numbers of the bands its elements refer to.
get_sampled_data(rows) ==
    LET bands == [k \in 1..Len(rows) |-> k]
    IN  Slice(bands, 18, 39) \o LastK(bands, 3)

---------------------------------------------------------------------------
(* The files on disk: byte streams in the format load reads *)

\* a 16-bit value as two little-endian bytes (two's complement)
U16(n) == <<(n % 65536) % 256, (n % 65536) \div 256>>
U32(n) == U16(n) \o U16(n \div 65536)
Zeros(n) == [i \in 1..n |-> 0]
Words(vals) ==
    [i \in 1..(2 * Len(vals)) |-> U16(vals[(i + 1) \div 2])[2 - (i % 2)]]

Stamp == Zeros(StampLen)
DateCode(day, month, yearOffset) == day + month * 32 + yearOffset * 512
TimeCode(hour, minute, second) == hour * 1800 + minute * 30 + second \div 2
\* '@PBL' and 'BUF1' as UTF-16 little endian
NamePBL == <<64, 0, 80, 0, 66, 0, 76, 0>>
NameBUF == <<66, 0, 85, 0, 70, 0, 49, 0>>

FileHeaderRec(name, date, time, assoc) ==
    <<1, 12>> \o name \o <<0, 0>> \o U16(date) \o U16(time) \o assoc
BufferHeaderRec(length, step, samples) ==
    <<24, length>> \o Zeros(4) \o U16(step) \o Zeros(4) \o U32(samples)
        \o Zeros(2 * (length - 8))
ContainerRec(tag, length) == <<tag, length, 0, 0>>
Rec(tag, length) == <<tag, length>> \o Zeros(2 * (length - 1))
ExtRec(tag, L) == <<tag, 0>> \o U16(L) \o Zeros(2 * (L - 2))
SubRec(tag, frequencies, totals, vals) ==
    <<tag, 0, 0, 0>> \o U16(frequencies) \o U16(totals) \o Words(vals)
\* the six sub-records of a main file: octave results then peaks per channel
MainBody(frequencies, totals, base) ==
    LET n == frequencies + totals
        oct(c) == SubRec(16, frequencies, totals, [i \in 1..n |-> base * (i - 1) + c])
        peak(c) == SubRec(57, frequencies, totals, [i \in 1..n |-> 9000 + i])
    IN  oct(0) \o peak(0) \o oct(1) \o peak(1) \o oct(2) \o peak(2)
\* one sample of a buffer file: 3 Leq words, then per channel a guard word
\* and n values
SampleBody(n, s, guard) ==
    LET blk(c) == <<guard>> \o [v \in 1..n |-> 100 * c + 10 * s + v]
    IN  Words(<<1000 + s, 2000 + s, 3000 + s>> \o blk(0) \o blk(1) \o blk(2))
Trailer == <<255, 255>>

MainSmallBody ==
    Stamp \o FileHeaderRec(NamePBL, DateCode(1, 11, 26), TimeCode(17, 22, 0), NameBUF)
          \o ContainerRec(7, 0) \o ExtRec(2, 5) \o Rec(25, 2) \o MainBody(2, 1, 100)
MainSmall == MainSmallBody \o Trailer
Main48 ==
    Stamp \o FileHeaderRec(NamePBL, DateCode(31, 12, 127), TimeCode(18, 12, 14), NameBUF)
          \o ContainerRec(14, 3) \o Rec(25, 1) \o MainBody(45, 3, 100) \o Trailer
Main45 ==
    Stamp \o Rec(3, 2) \o Rec(25, 1) \o MainBody(42, 3, 1) \o Trailer
MainBadTrailer == MainSmallBody \o <<0, 0>>
MainTruncated == SubSeq(MainSmallBody, 1, Len(MainSmallBody) - 31)
BufFull ==
    Stamp \o FileHeaderRec(NameBUF, DateCode(29, 2, 100), TimeCode(23, 59, 58), NamePBL)
          \o BufferHeaderRec(8, 100, 1) \o ContainerRec(9, 1) \o Rec(33, 1)
          \o SampleBody(48, 0, 0) \o Trailer
BufSmall ==
    Stamp \o BufferHeaderRec(9, 50, 2) \o Rec(33, 3)
          \o SampleBody(5, 0, 0) \o SampleBody(5, 1, 7) \o Trailer
NoTerminal ==
    Stamp \o FileHeaderRec(NamePBL, DateCode(1, 1, 0), TimeCode(0, 0, 0), NameBUF) \o Rec(5, 3)
BufShortHeader == Stamp \o <<24, 4>> \o Zeros(14) \o Rec(33, 1) \o Trailer
OddName == Stamp \o <<1, 12, 64, 0, 80>>

\* a buffer header with length byte 0 and extended length L
BufferHeaderExt(L, step, samples) ==
    <<24, 0>> \o U16(L) \o Zeros(4) \o U16(step) \o Zeros(4) \o U32(samples)
        \o Zeros(2 * (L - 9))
\* channel 0 with two octave sub-records, channel 1 with two peak
\* sub-records, channel 2 with peaks first
MainOdd ==
    Stamp \o Rec(25, 1)
          \o SubRec(16, 1, 1, <<11, 12>>) \o SubRec(16, 2, 1, <<13, 14, 15>>)
          \o SubRec(57, 1, 1, <<21, 22>>) \o SubRec(57, 1, 1, <<23, 24>>)
          \o SubRec(57, 1, 1, <<31, 32>>) \o SubRec(16, 1, 1, <<33, 34>>) \o Trailer
\* BufFull with non-zero guard words, a negative step and an extended length
BufGuard ==
    Stamp \o FileHeaderRec(NameBUF, DateCode(29, 2, 100), TimeCode(23, 59, 58), NamePBL)
          \o BufferHeaderExt(11, -5, 1) \o ContainerRec(9, 1) \o Rec(33, 1)
          \o SampleBody(48, 0, 5) \o Trailer
\* a buffer file with no buffer header, holding the 160 samples a new
\* parser expects
SampleBodies(n, count) ==
    LET bodies == [s \in 1..count |-> SampleBody(n, s - 1, 0)]
        size == 6 + 3 * (2 + 2 * n)
    IN  [i \in 1..(count * size) |-> bodies[(i - 1) \div size + 1][((i - 1) % size) + 1]]
BufNoHeader ==
    Stamp \o Rec(33, 1) \o SampleBodies(frequencies0 + totals0, samples0) \o Trailer

Prefixes(b) == [k \in 1..(Len(b) + 1) |-> SubSeq(b, 1, k - 1)]

BaseFiles == <<MainSmall, Main48, Main45, MainBadTrailer, MainTruncated,
               BufFull, BufSmall, NoTerminal, BufShortHeader, OddName,
               MainOdd, BufGuard>>
\* the files log_mean is given
FileIds == 1..Len(BaseFiles)
Disk == BaseFiles \o <<BufNoHeader>> \o Prefixes(MainSmall) \o Prefixes(BufSmall)
\* the files a single load is given
LoadIds == 1..Len(Disk)

---------------------------------------------------------------------------
(* log_mean(files, channel), pressure.py lines 6-35, step by step *)

Running == [state |-> "running", exc |-> "", value |-> <<>>]
Raised(exc) == [state |-> "raised", exc |-> exc, value |-> <<>>]
Returned(v) == [state |-> "returned", exc |-> "", value |-> v]
NoCall == [fn |-> "none", arg |-> 0, fields |-> <<>>, res |-> <<>>]

\* lines 25-35.  The float 10*log10(mean(10**(v/10) for v in column)) is a
\* function of the column of levels alone; the model returns the column.
Average(rows) ==
    IF rows = <<>> THEN Raised("IndexError")
    ELSE LET n0 == Len(rows[1])
         IN  IF \E f \in 1..Len(rows) : Len(rows[f]) < n0 THEN Raised("IndexError")
             ELSE Returned([sample \in 1..n0 |-> [f \in 1..Len(rows) |-> rows[f][sample]]])

M == [rd |-> reader, pos |-> pos, pc |-> pc, idx |-> idx, ret |-> ret,
      short |-> short, term |-> term, out |-> stdout, hist |-> hist]
SetM(m) ==
    /\ reader' = m.rd
    /\ pos' = m.pos
    /\ pc' = m.pc
    /\ idx' = m.idx
    /\ ret' = m.ret
    /\ short' = m.short
    /\ term' = m.term
    /\ stdout' = m.out
    /\ hist' = m.hist
Bytes == Disk[path]
Tag == HeaderAt(Bytes, pos)

Init ==
    /\ reader = Fresh
    /\ path = 0
    /\ pos = 0
    /\ pc = "lm_for"
    /\ idx = 0
    /\ ret = "none"
    /\ short = FALSE
    /\ term = 0
    /\ stdout = 0
    /\ channel \in 0..2
    /\ data = <<>>
    /\ lens = <<>>
    /\ result = Running
    /\ call = NoCall
    /\ hist = NoHist
    /\ view = None

\* lines 20-21: the next file of the list is opened by reader.load
Open(f) ==
    /\ pc = "lm_for"
    /\ Len(data) < MaxFiles
    /\ path' = f
    /\ SetM(StartLoad(reader, Disk[f]))
    /\ UNCHANGED <<channel, data, lens, result, call, view>>

LoopIteration ==
    /\ SetM(Step(M, Bytes))
    /\ UNCHANGED <<path, channel, data, lens, result, call, view>>

SkipContainer == pc = "loop" /\ Tag \in CONTAINERS /\ LoopIteration
ReadFileHeader == pc = "loop" /\ Tag = 1 /\ LoopIteration
ReadBufferHeader == pc = "loop" /\ Tag = 24 /\ LoopIteration
BeginMain == pc = "loop" /\ Tag = 25 /\ LoopIteration
BeginBuffer == pc = "loop" /\ Tag = 33 /\ LoopIteration
SkipRecord == pc = "loop" /\ Tag \notin CONTAINERS \cup {1, 24, 25, 33} /\ LoopIteration
ReadSubRecord == pc = "main" /\ LoopIteration
ReadSample == pc = "buffer" /\ LoopIteration
CheckTrailer == pc = "trailer" /\ LoopIteration

\* line 21: an exception of load leaves log_mean
Propagate ==
    /\ pc = "loaded"
    /\ ret \notin {"True", "False"}
    /\ pc' = "lm_done"
    /\ result' = Raised(ret)
    /\ UNCHANGED <<reader, path, pos, idx, ret, short, term, stdout, channel, data, lens,
                   call, hist, view>>

\* line 22: data.append(reader.get_data(channel))
GetData ==
    /\ pc = "loaded"
    /\ ret \in {"True", "False"}
    /\ IF reader.data = None
       THEN /\ pc' = "lm_done"
            /\ result' = Raised("TypeError")
            /\ UNCHANGED <<data, lens>>
       ELSE /\ pc' = "lm_for"
            /\ data' = Append(data, get_data(reader.data[channel + 1]))
            /\ lens' = Append(lens, Len(reader.data[channel + 1]))
            /\ UNCHANGED result
    /\ UNCHANGED <<reader, path, pos, idx, ret, short, term, stdout, channel, call, hist, view>>

\* lines 24-35, once the list of files is exhausted
Finish ==
    /\ pc = "lm_for"
    /\ pc' = "lm_done"
    /\ result' = Average(data)
    /\ UNCHANGED <<reader, path, pos, idx, ret, short, term, stdout, channel, data, lens,
                   call, hist, view>>

Next ==
    \/ \E f \in FileIds : Open(f)
    \/ SkipContainer
    \/ ReadFileHeader
    \/ ReadBufferHeader
    \/ SkipRecord
    \/ BeginMain
    \/ BeginBuffer
    \/ ReadSubRecord
    \/ ReadSample
    \/ CheckTrailer
    \/ Propagate
    \/ GetData
    \/ Finish

Spec == Init /\ [][Next]_vars

---------------------------------------------------------------------------
(* The codec functions called directly, one call per behaviour, on the     *)
(* codes built from every calendar date and time of day                    *)

CallDecompressTime ==
    /\ call = NoCall
    /\ \E hour \in 0..23, minute \in 0..59, half \in 0..29 :
          LET code == TimeCode(hour, minute, 2 * half)
          IN  call' = [fn |-> "decompress_time", arg |-> code,
                       fields |-> <<hour, minute, 2 * half>>,
                       res |-> decompress_time(code)]
    /\ UNCHANGED <<reader, path, pos, pc, idx, ret, short, term, stdout,
                   channel, data, lens, result, hist, view>>

\* the date code as the unsigned value, or as the signed value load passes
\* (line 158: parse_bytes of the two bytes)
CallDecompressDate ==
    /\ call = NoCall
    /\ \E day \in 1..31, month \in 1..12, yearOffset \in 0..127, signed \in BOOLEAN :
          LET code == DateCode(day, month, yearOffset)
              arg == IF signed THEN parse_bytes(U16(code)) ELSE code
          IN  call' = [fn |-> "decompress_date", arg |-> arg,
                       fields |-> <<day, month, yearOffset>>,
                       res |-> decompress_date(arg)]
    /\ UNCHANGED <<reader, path, pos, pc, idx, ret, short, term, stdout,
                   channel, data, lens, result, hist, view>>

InitCodec == Init /\ channel = 0
NextCodec == CallDecompressTime \/ CallDecompressDate
SpecCodec == InitCodec /\ [][NextCodec]_vars

---------------------------------------------------------------------------
(* One load of any file by a new parser, then a caller that takes          *)
(* get_sampled_data's list and writes to it                                *)

OpenOnce(f) ==
    /\ pc = "lm_for"
    /\ path = 0
    /\ path' = f
    /\ SetM(StartLoad(reader, Disk[f]))
    /\ UNCHANGED <<channel, data, lens, result, call, view>>

\* get_sampled_data(ch), called once load has returned True.
\* The list the caller holds: a reference to one of the parser's per-band
\* lists (ref: the band's number) or a list of the caller's own (ref = 0)
GetSampledData(ch) ==
    /\ pc = "loaded"
    /\ view = None
    /\ ret = "True"
    /\ reader.sampled_data # None
    /\ view' = <<[ch |-> ch + 1,
                  cells |-> [i \in DOMAIN get_sampled_data(reader.sampled_data[ch + 1]) |->
                               [ref |-> get_sampled_data(reader.sampled_data[ch + 1])[i],
                                own |-> <<>>]]]>>
    /\ UNCHANGED <<reader, path, pos, pc, idx, ret, short, term, stdout,
                   channel, data, lens, result, call, hist>>

\* returned[i][j] = -1: the element is the parser's list, which is written
CallerWriteElement(i, j) ==
    /\ view # None
    /\ i \in DOMAIN view[1].cells
    /\ LET cell == view[1].cells[i]
       IN  IF cell.ref = 0
           THEN /\ j \in DOMAIN cell.own
                /\ view' = <<[view[1] EXCEPT !.cells[i].own[j] = -1]>>
                /\ UNCHANGED reader
           ELSE /\ j \in DOMAIN reader.sampled_data[view[1].ch][cell.ref]
                /\ reader' = [reader EXCEPT !.sampled_data[view[1].ch][cell.ref][j] = -1]
                /\ UNCHANGED view
    /\ UNCHANGED <<path, pos, pc, idx, ret, short, term, stdout,
                   channel, data, lens, result, call, hist>>

\* returned[i] = []: only the caller's outer list changes
CallerReplaceBand(i) ==
    /\ view # None
    /\ i \in DOMAIN view[1].cells
    /\ view' = <<[view[1] EXCEPT !.cells[i] = [ref |-> 0, own |-> <<>>]]>>
    /\ UNCHANGED <<reader, path, pos, pc, idx, ret, short, term, stdout,
                   channel, data, lens, result, call, hist>>

\* a step of the running load.  Step is total, so a running load can always
\* take its next step: the first disjunct says so without computing the
\* step (it is no step of NextLoad); the steps a behaviour takes are those
\* of LoopIteration.
LoadStep ==
    /\ pc \in {"loop", "main", "buffer", "trailer"}
    /\ \/ /\ pc' = "loaded"
          /\ UNCHANGED <<reader, path, pos, idx, ret, short, term, stdout,
                         channel, data, lens, result, call, hist, view>>
       \/ LoopIteration

InitLoad == Init /\ channel = 0
NextLoad ==
    \/ \E f \in LoadIds : OpenOnce(f)
    \/ SkipContainer
    \/ ReadFileHeader
    \/ ReadBufferHeader
    \/ SkipRecord
    \/ BeginMain
    \/ BeginBuffer
    \/ ReadSubRecord
    \/ ReadSample
    \/ CheckTrailer
    \/ \E ch \in 0..2 : GetSampledData(ch)
    \/ \E i \in {1, 24}, j \in {1, 160} : CallerWriteElement(i, j)
    \/ CallerReplaceBand(1)
\* a call of load runs on: the program is sequential
SpecLoad == InitLoad /\ [][NextLoad]_vars /\ WF_vars(LoadStep)

---------------------------------------------------------------------------
(* Properties *)

\* the record at the top of the dispatch loop, as the format describes it
DeclaredLength == LengthAt(Bytes, pos)
ExtendedL == FromBytes(Rd(Bytes, pos + 2, 2))
EffectiveLength == IF DeclaredLength # 0 THEN DeclaredLength ELSE ExtendedL - 1
PayloadStart == pos + (IF DeclaredLength = 0 THEN 4 ELSE 2)

\* C1: a record whose tag is not 7, 9, 14, 0x01 or 0x18 and whose payload is
\* in the file has exactly 2*(effectiveLength-1) payload bytes skipped by the
\* generic path, effectiveLength being the length byte when non-zero and L-1
\* when it is 0 and L is the extended length; with length byte 0 and L = 5
\* exactly 6 bytes are skipped.
C1_GenericSkipExact ==
    [][(/\ pc = "loop"
        /\ Tag \notin CONTAINERS \cup {1, 24}
        /\ EffectiveLength >= 1
        /\ PayloadStart + 2 * (EffectiveLength - 1) <= Len(Bytes))
       => /\ pos' - PayloadStart = 2 * (EffectiveLength - 1)
          /\ (DeclaredLength = 0 /\ ExtendedL = 5) => pos' - PayloadStart = 6
          /\ ret' = "none"]_vars

\* C1 witness: the loop stands right after a skipped record with length byte
\* 0 and extended length 5
C1_Witness ==
    /\ pc = "loop"
    /\ pos >= StampLen + 10
    /\ HeaderAt(Bytes, pos - 10) = 2
    /\ LengthAt(Bytes, pos - 10) = 0
    /\ FromBytes(Rd(Bytes, pos - 8, 2)) = 5

\* C2: once a terminal record has been decoded, load returns True exactly
\* when the next 2 bytes are FF FF, returns False (raises nothing) when they
\* differ, and leaves every attribute of the parser as it was decoded.
C2_TrailerDecides ==
    [][pc = "trailer"
       => /\ ret' = IF Rd(Bytes, pos, 2) = <<255, 255>> THEN "True" ELSE "False"
          /\ pc' = "loaded"
          /\ reader' = reader]_vars

\* C2 witness: a load that read a whole file returned False at the trailer
\* with the metadata and the levels in place
C2_Witness ==
    /\ pc = "loaded"
    /\ ret = "False"
    /\ ~short
    /\ reader.data = <<<<0, 100, 200>>, <<1, 101, 201>>, <<2, 102, 202>>>>
    /\ reader.time = <<17, 22, 0>>
    /\ reader.file = <<64, 80, 66, 76>>

\* C3: every read of load that needs more bytes than remain aborts the
\* decode with an error: a load in which some read came up short never
\* returns a result.
C3_ShortReadAborts ==
    (pc = "loaded" /\ short) => ret \notin {"True", "False"}

\* C4: whenever the latest load returned True, exactly one of data and
\* sampled_data is populated, the one of the terminal record of that file
\* (0x19: data, 0x21: sampled_data).
C4_ExactlyOnePopulated ==
    (pc = "loaded" /\ ret = "True")
    => /\ (reader.data # None) # (reader.sampled_data # None)
       /\ term = 25 => reader.data # None
       /\ term = 33 => reader.sampled_data # None

\* C5: the result of a load that returns (return value and every attribute
\* of the parser) is the one a fresh parser gives on the same byte stream,
\* whatever files the instance decoded before.
C5_LoadIgnoresHistory ==
    (pc = "loaded" /\ ret \in {"True", "False"})
    => LET fresh == load(Fresh, Bytes)
       IN  fresh.ret = ret /\ fresh.rd = reader

\* C6: a file header whose time code is hour*1800+minute*30+second/2, for
\* hour in 0..23, minute in 0..59 and even second in 0..58, leaves the
\* parser's time equal to (hour, minute, second), also for codes >= 32768.
C6_HeaderTimeDecoded ==
    [][(/\ pc = "loop"
        /\ Tag = 1
        /\ PayloadStart + 22 <= Len(Bytes))
       => \A hour \in 0..23, minute \in 0..59, half \in 0..29 :
             FromBytes(Rd(Bytes, PayloadStart + 12, 2)) = hour * 1800 + minute * 30 + half
             => reader'.time = <<hour, minute, 2 * half>>]_vars

\* C7: decompress_time of hour*1800+minute*30+second/2 is (hour, minute,
\* second) for hour in 0..23, minute in 0..59 and even second in 0..58.
C7_TimeRoundTrip ==
    call.fn = "decompress_time" => call.res = call.fields

\* C7 witness: the last tick of the day has been decoded
C7_Witness ==
    /\ call.fn = "decompress_time"
    /\ call.arg = 43199
    /\ call.fields = <<23, 59, 58>>

\* C8: decompress_date of day + month*32 + yearOffset*512 is (day, month,
\* yearOffset+2000) for day in 1..31, month in 1..12, yearOffset in 0..127,
\* given the unsigned code or the signed 16-bit value load passes.
C8_DateRoundTrip ==
    call.fn = "decompress_date"
    => call.res = <<call.fields[1], call.fields[2], call.fields[3] + 2000>>

\* C8 witness: a code of a year offset >= 64 has been decoded from its
\* negative signed value
C8_Witness ==
    /\ call.fn = "decompress_date"
    /\ call.arg < 0
    /\ call.fields = <<31, 12, 127>>

\* the band selection of a 48-element sequence, as 0-based indices
SelectedIndex == [k \in 1..24 |-> IF k <= 21 THEN 17 + k ELSE 23 + k]

\* C9: for a channel whose level sequence has 48 elements get_data returns
\* 24 elements, those at indices 18..38 in order then those at 45, 46, 47;
\* for the sequence with element i = i it returns [18,...,38,45,46,47].
C9_BandSelection ==
    /\ get_data([i \in 1..48 |-> i - 1]) = SelectedIndex
    /\ (pc = "lm_for" /\ data # <<>> /\ Len(reader.data[channel + 1]) = 48)
       => LET got == data[Len(data)]
              levels == reader.data[channel + 1]
          IN  /\ Len(got) = 24
              /\ \A k \in 1..24 : got[k] = levels[SelectedIndex[k] + 1]

\* C9 witness: get_data has returned the selection of the 48 levels
\* 0 dB, 1 dB, ..., 47 dB of a decoded main file
C9_Witness ==
    /\ pc = "lm_for"
    /\ data # <<>>
    /\ reader.data[channel + 1] = [i \in 1..48 |-> 100 * (i - 1)]
    /\ data[Len(data)] = [k \in 1..24 |-> 100 * SelectedIndex[k]]

\* C10: averaging fails with an error and returns no vector whenever the
\* decoded level vectors of the chosen channel differ in length across the
\* input files.
C10_LengthMismatchFails ==
    (pc = "lm_done" /\ \E i, j \in DOMAIN lens : lens[i] # lens[j])
    => result.state = "raised"

\* the sub-record at the cursor of read_main_contents, as the format
\* describes it
SubTag == HeaderAt(Bytes, pos)
BandCount == WordAt(Bytes, pos + 4, 0)
TotalCount == WordAt(Bytes, pos + 6, 0)

\* C11: when read_main_contents has completed, the level sequence of every
\* channel has as many values as one of its two sub-records declares
\* (bandCount + totalCount), and as many as each of its sub-records with the
\* octave-results tag declares, whatever the two sub-tags are.
C11_OneValuePerSlot ==
    (pc = "trailer" /\ term = 25) =>
        \A c \in 1..3 :
            /\ \E k \in {2 * c - 1, 2 * c} :
                   Len(reader.data[c]) = hist.subs[k][2] + hist.subs[k][3]
            /\ \A k \in {2 * c - 1, 2 * c} :
                   hist.subs[k][1] = 16
                       => Len(reader.data[c]) = hist.subs[k][2] + hist.subs[k][3]

\* C12: read_main_contents reads sub-records 0..5 and then stops; sub-record
\* k changes data only at channel k \div 2, and only when its sub-tag is
\* 0x10, by appending the values read; a sub-record that is in the file
\* takes 8 + 2*(bandCount + totalCount) bytes whatever its sub-tag.
C12_SubRecords ==
    [][pc = "main"
       => LET c == (idx \div 2) + 1
              n == Max(0, BandCount + TotalCount)
          IN  /\ idx < 6
              /\ idx' = idx + 1
              /\ pc' = IF idx = 5 THEN "trailer" ELSE "main"
              /\ \A d \in (1..3) \ {c} : reader'.data[d] = reader.data[d]
              /\ SubTag # 16 => reader'.data = reader.data
              /\ SubTag = 16 =>
                     reader'.data[c] =
                         reader.data[c] \o [i \in 1..n |-> WordAt(Bytes, pos + 8, i - 1)]
              /\ pos + 8 + 2 * n <= Len(Bytes) => pos' - pos = 8 + 2 * n]_vars

\* C12 witness: channel 0's peak sub-record has been read after its octave
\* sub-record and the channel holds the three octave values only
C12_Witness ==
    /\ pc = "main"
    /\ idx = 2
    /\ hist.subs = <<<<16, 2, 1>>, <<57, 2, 1>>>>
    /\ reader.data[1] = <<0, 100, 200>>
    /\ pos = hist.mark + 2 * (8 + 2 * 3)

\* the file with the guard words of the sample at the cursor set to 0
GuardsZeroed ==
    LET n == Max(0, reader.frequencies + reader.totals)
        guards == UNION {{pos + 6 + (c - 1) * (2 + 2 * n) + 1,
                          pos + 6 + (c - 1) * (2 + 2 * n) + 2} : c \in 1..3}
    IN  [i \in 1..Len(Bytes) |-> IF i \in guards THEN 0 ELSE Bytes[i]]

\* C13: a sample whose guard words are not 0 is decoded as the same sample
\* with its guard words set to 0 is: the same bytes are consumed, the same
\* sampled_data and leq result, nothing is raised, and the decoder goes on
\* to the next sample or to the trailer check.
C13_GuardIgnored ==
    [][pc = "buffer"
       => LET z == BufferStep(M, GuardsZeroed)
          IN  /\ reader' = z.rd
              /\ pos' = z.pos
              /\ pc' = z.pc
              /\ pc' \in {"buffer", "trailer"}
              /\ ret' = "none"]_vars

\* C13 witness: a buffer file whose three guard words are not 0 has been
\* loaded to the end and load returned True
C13_Witness ==
    /\ pc = "loaded"
    /\ term = 33
    /\ ret = "True"
    /\ stdout = 3
    /\ reader.samples = 1
    /\ pos = Len(Bytes)

\* C14: once the caller holds the list get_sampled_data returned, nothing
\* the caller writes to it changes the parser's sampled_data.
C14_CopyIsolated ==
    [][view # None => reader'.sampled_data = reader.sampled_data]_vars

\* C15: load terminates on every file: a dispatch loop at the end of the
\* input leaves the loop in that iteration, and every load that has started
\* comes to its end with a terminal record (0x19 or 0x21) decoded or with an
\* error raised.
C15_LoadTerminates ==
    /\ [][(pc = "loop" /\ pos >= Len(Bytes)) => pc' # "loop"]_vars
    /\ (pc = "loop") ~> (pc = "loaded" /\ (term \in {25, 33} \/ ret \notin {"none", "True", "False"}))

\* C15 witness: a file with no terminal record was read to its end and load
\* ended there with an error
C15_Witness ==
    /\ pc = "loaded"
    /\ term = 0
    /\ ret = "ValueError"
    /\ pos = Len(Bytes)
    /\ Len(hist.tags) >= 2

\* C16: a record with tag 7, 9 or 14 whose 4 bytes are in the file takes
\* exactly those 4 bytes whatever its length byte, changes no attribute of
\* the parser, enters no decoder, and the loop reads the next tag right
\* after them.
C16_ContainerSkip ==
    [][(pc = "loop" /\ Tag \in CONTAINERS /\ pos + 4 <= Len(Bytes))
       => /\ pos' = pos + 4
          /\ reader' = reader
          /\ pc' = "loop"
          /\ term' = term
          /\ ret' = "none"]_vars

\* C16 witness: the loop stands right after a container record with tag 7
\* whose length byte is 0
C16_Witness ==
    /\ pc = "loop"
    /\ hist.tags # <<>>
    /\ hist.tags[Len(hist.tags)] \in CONTAINERS
    /\ LengthAt(Bytes, pos - 4) = 0
    /\ HeaderAt(Bytes, pos - 4) = 7

\* the two names of the file header at the cursor decode
NamesDecode ==
    /\ Utf16Decode(Rd(Bytes, PayloadStart, 8)).ok
    /\ Utf16Decode(Rd(Bytes, PayloadStart + 14, 8)).ok

\* C17 as stated: a file header whose payload is in the file takes 19 code
\* units (38 bytes), the date code being code unit 9 and the time code code
\* unit 10 of the payload, and the next tag is read right after them.
C17_FileHeader19Units ==
    [][(pc = "loop" /\ Tag = 1 /\ PayloadStart + 38 <= Len(Bytes) /\ NamesDecode)
       => /\ pos' = PayloadStart + 38
          /\ reader'.date = decompress_date(WordAt(Bytes, PayloadStart, 9))
          /\ reader'.time = decompress_time(WordAt(Bytes, PayloadStart, 10))]_vars

\* C17 amended: a file header whose payload is in the file and whose names
\* decode takes 11 code units (22 bytes): 4 for the file name, 1 skipped, the
\* date code, the time code, 4 for the associated file name; the next tag is
\* read right after them.
C17_FileHeader11Units ==
    [][(pc = "loop" /\ Tag = 1 /\ PayloadStart + 22 <= Len(Bytes) /\ NamesDecode)
       => /\ pos' = PayloadStart + 22
          /\ pc' = "loop"
          /\ reader'.file = Utf16Decode(Rd(Bytes, PayloadStart, 8)).text
          /\ reader'.date = decompress_date(WordAt(Bytes, PayloadStart, 5))
          /\ reader'.time = decompress_time(WordAt(Bytes, PayloadStart, 6))
          /\ reader'.associated_file = Utf16Decode(Rd(Bytes, PayloadStart + 14, 8)).text]_vars

\* C17 witness: the loop stands right after a file header of 22 payload
\* bytes with both names decoded
C17_Witness ==
    /\ pc = "loop"
    /\ hist.tags = <<1>>
    /\ pos = StampLen + 2 + 22
    /\ reader.file = <<64, 80, 66, 76>>
    /\ reader.associated_file = <<66, 85, 70, 49>>
    /\ reader.time = <<17, 22, 0>>

\* C18: a buffer header with effective length >= 8 whose payload is in the
\* file takes exactly 2*(effectiveLength-1) payload bytes, sets step to the
\* signed 16-bit value at payload bytes 4-5 and samples to the signed 32-bit
\* value at payload bytes 10-13, and the loop reads the next tag right after
\* the payload.
C18_BufferHeader ==
    [][(/\ pc = "loop"
        /\ Tag = 24
        /\ EffectiveLength >= 8
        /\ PayloadStart + 2 * (EffectiveLength - 1) <= Len(Bytes))
       => LET u == FromBytes(Rd(Bytes, PayloadStart + 4, 2))
          IN  /\ pos' = PayloadStart + 2 * (EffectiveLength - 1)
              /\ reader'.step = IF u >= 32768 THEN u - 65536 ELSE u
              /\ reader'.samples = parse_bytes(Rd(Bytes, PayloadStart + 10, 4))
              /\ pc' = "loop"
              /\ ret' = "none"]_vars

\* C18 witness: the loop stands right after a buffer header of extended
\* length 11 (effective length 10) that set a negative step
C18_Witness ==
    /\ pc = "loop"
    /\ hist.tags # <<>>
    /\ hist.tags[Len(hist.tags)] = 24
    /\ LengthAt(Bytes, pos - 22) = 0
    /\ FromBytes(Rd(Bytes, pos - 20, 2)) = 11
    /\ reader.step = -5
    /\ reader.samples = 1

\* C19: whenever the buffer-contents decoder runs, a buffer header (0x18)
\* was decoded earlier in the same load.
C19_HeaderBeforeContents ==
    pc = "buffer" => \E i \in DOMAIN hist.tags : hist.tags[i] = 24

\* the number of levels per channel and of samples the buffer decoder uses
Levels == Max(0, reader.frequencies + reader.totals)
Samples == Max(0, reader.samples)

\* C20: while and after read_buffer_contents runs, sampled_data is
\* [3][bandCount+totalCount][samples] and leq is [3][samples]; the sample at
\* the cursor writes column idx+1 of every row, and no other cell, with the
\* values read (3 Leq words /20, then per channel a guard word and the band
\* words /10); samples are taken in order, each once, and when the last is
\* done on a file that holds them all, samples * (6 + 3*(2 + 2*(bandCount +
\* totalCount))) bytes have been consumed.
C20_BufferMatrix ==
    /\ []((term = 33 /\ pc \in {"buffer", "trailer", "loaded"})
          => /\ Len(reader.sampled_data) = 3
             /\ Len(reader.leq) = 3
             /\ \A c \in 1..3 :
                    /\ Len(reader.leq[c]) = Samples
                    /\ Len(reader.sampled_data[c]) = Levels
                    /\ \A v \in 1..Levels : Len(reader.sampled_data[c][v]) = Samples)
    /\ [][pc = "buffer"
          => LET s == idx + 1
                 size == 6 + 3 * (2 + 2 * Levels)
                 block(c) == pos + 6 + (c - 1) * (2 + 2 * Levels)
             IN  /\ idx < reader.samples
                 /\ idx' = s
                 /\ pc' = IF s = reader.samples THEN "trailer" ELSE "buffer"
                 /\ \A c \in 1..3 :
                        /\ reader'.leq[c][s] * 20 = 100 * WordAt(Bytes, pos, c - 1)
                        /\ \A i \in (1..Samples) \ {s} : reader'.leq[c][i] = reader.leq[c][i]
                        /\ \A v \in 1..Levels :
                               /\ reader'.sampled_data[c][v][s] * 10
                                      = 100 * WordAt(Bytes, block(c), v)
                               /\ \A i \in (1..Samples) \ {s} :
                                      reader'.sampled_data[c][v][i]
                                          = reader.sampled_data[c][v][i]
                 /\ pos + size <= Len(Bytes) => pos' = pos + size
                 /\ (pc' = "trailer" /\ hist.mark + reader.samples * size <= Len(Bytes))
                        => pos' = hist.mark + reader.samples * size]_vars

\* C20 witness: a buffer file of 2 samples of 5 levels has been decoded to
\* the end by a parser that kept bandCount = 2 from a main file
C20_Witness ==
    /\ pc = "loaded"
    /\ term = 33
    /\ ret = "True"
    /\ reader.frequencies = 2
    /\ reader.samples = 2
    /\ reader.leq[3] = <<5 * 3000, 5 * 3001>>
    /\ reader.sampled_data[2][5] = <<10 * 105, 10 * 115>>
    /\ pos = hist.mark + 2 * (6 + 3 * (2 + 2 * 5)) + 2

====
